---- MODULE Spec2Model ----
(***************************************************************************)
(* CompilerService (src/src/services/CompilerService.ts): the analysis     *)
(* pipeline compile() = lexer -> parser -> scopes -> control flow ->       *)
(* complexity -> diagnostics, as a state machine.                          *)
(*                                                                         *)
(* A JavaScript string is a sequence of one-character strings.  The value  *)
(* handed to compile() is a record: Str(s) for a string, Null for null.    *)
(* A node id `node_${n}` is the pair <<"node_", n>>.  A RegExp result of   *)
(* null is the empty sequence (no pattern of the lexer matches the empty   *)
(* string).                                                                *)
(***************************************************************************)
EXTENDS Integers, Sequences, FiniteSets, TLC

VARIABLES
  code,        \* compile: the argument of the call in progress
  pc,          \* compile: position of the call
  remaining,   \* performLexicalAnalysis: let remaining
  line,        \* performLexicalAnalysis: let line
  column,      \* performLexicalAnalysis: let column
  tokens,      \* performLexicalAnalysis: const tokens / compile: const tokens
  spans,       \* history: what each lexer iteration took, and from what input
  currentId,   \* performSyntaxAnalysis: let currentId
  root,        \* performSyntaxAnalysis: const root
  i,           \* performSyntaxAnalysis: let i
  stack,       \* the active parseFunctionBody invocations, innermost last
  calls,       \* history: the parseFunctionBody invocations that returned
  parseTree,   \* compile: const parseTree
  scopes,      \* compile: const scopes
  controlFlow, \* compile: const controlFlow
  complexity,  \* compile: const complexity
  fault,       \* compile: the exception thrown in the call in progress, e
  result,      \* the value the last finished call resolved to
  history      \* history: earlier calls, as <<code, result>> pairs

vars == <<code, pc, remaining, line, column, tokens, spans, currentId, root, i,
          stack, calls, parseTree, scopes, controlFlow, complexity, fault,
          result, history>>

lexVars == <<remaining, line, column, tokens, spans>>
synVars == <<currentId, root, i, stack, calls>>
outVars == <<parseTree, scopes, controlFlow, complexity, fault, result>>

----------------------------------------------------------------------------
(* Sequences *)

Take(s, n) == SubSeq(s, 1, n)
Drop(s, n) == SubSeq(s, n + 1, Len(s))
StartsWith(s, p) == Len(s) >= Len(p) /\ Take(s, Len(p)) = p
SetMin(S) == CHOOSE x \in S : \A y \in S : x <= y
SetMax(S) == CHOOSE x \in S : \A y \in S : x >= y
Max2(a, b) == IF a >= b THEN a ELSE b
Min2(a, b) == IF a <= b THEN a ELSE b

RECURSIVE Concat(_)
Concat(ss) == IF ss = <<>> THEN <<>> ELSE Head(ss) \o Concat(Tail(ss))

RECURSIVE JoinWith(_, _)
\* Array.prototype.join(sep)
JoinWith(ss, sep) ==
  IF ss = <<>> THEN <<>>
  ELSE IF Len(ss) = 1 THEN Head(ss)
  ELSE Head(ss) \o sep \o JoinWith(Tail(ss), sep)

\* the sequences over S of length at most n
SeqsUpTo(S, n) == UNION {[1..k -> S] : k \in 0..n}

Str(s) == [kind |-> "string", chars |-> s]
Null == [kind |-> "null", chars |-> <<>>]
\* the value null of the result's fields, and a local not yet assigned
NullValue == [null |-> TRUE]
Undefined == [undefined |-> TRUE]

\* a template literal `text${arg}` or `${n}text`
Msg(text, arg) == [text |-> text, arg |-> arg]
Count(n, text) == [n |-> n, text |-> text]
Text(text) == [text |-> text]

----------------------------------------------------------------------------
(* Character classes of the lexer's regular expressions *)

Lower == {"a", "b", "c", "d", "e", "f", "g", "h", "i", "j", "k", "l", "m",
          "n", "o", "p", "q", "r", "s", "t", "u", "v", "w", "x", "y", "z"}
Upper == {"A", "B", "C", "D", "E", "F", "G", "H", "I", "J", "K", "L", "M",
          "N", "O", "P", "Q", "R", "S", "T", "U", "V", "W", "X", "Y", "Z"}
Digit == {"0", "1", "2", "3", "4", "5", "6", "7", "8", "9"}
\* \w, the characters between which \b finds no boundary
WordChar == Lower \cup Upper \cup Digit \cup {"_"}
\* \s
Space == {" ", "\t", "\n", "\r", "\f"}
\* [+\-*\/%=<>!&|^]
OpChar == {"+", "-", "*", "/", "%", "=", "<", ">", "!", "&", "|", "^"}
\* [;,(){}\[\].]
PunctChar == {";", ",", "(", ")", "{", "}", "[", "]", "."}

Keywords ==
  << <<"i", "n", "t">>, <<"c", "h", "a", "r">>, <<"f", "l", "o", "a", "t">>,
     <<"d", "o", "u", "b", "l", "e">>, <<"v", "o", "i", "d">>, <<"i", "f">>,
     <<"e", "l", "s", "e">>, <<"w", "h", "i", "l", "e">>, <<"f", "o", "r">>,
     <<"r", "e", "t", "u", "r", "n">>, <<"p", "r", "i", "n", "t", "f">> >>

\* the length of the longest prefix of s whose characters are all in S
RunLen(s, S) ==
  IF \A k \in 1..Len(s) : s[k] \in S THEN Len(s)
  ELSE SetMin({k \in 1..Len(s) : s[k] \notin S}) - 1

\* the length of the longest prefix of s with no character in S
RunUntil(s, S) ==
  IF \A k \in 1..Len(s) : s[k] \notin S THEN Len(s)
  ELSE SetMin({k \in 1..Len(s) : s[k] \in S}) - 1

\* \b at offset n of s (between s[n] and s[n+1])
Boundary(s, n) ==
  LET before == n >= 1 /\ s[n] \in WordChar
      after == n < Len(s) /\ s[n + 1] \in WordChar
  IN before # after

----------------------------------------------------------------------------
(* new RegExp(`^${pattern.source}`).exec(remaining)[0], one operator per   *)
(* pattern.  The ^ binds to the first alternative of a pattern only: the   *)
(* other alternatives of COMMENT and OPERATOR are searched for anywhere in *)
(* the input, and exec returns the leftmost match.                         *)

\* /^\/\/[^\n]*|\/\*[\s\S]*?\*\//
ExecComment(s) ==
  IF StartsWith(s, <<"/", "/">>)
  THEN Take(s, 2 + RunUntil(Drop(s, 2), {"\n"}))
  ELSE LET closes(k) == {m \in (k + 2)..(Len(s) - 1) :
                           s[m] = "*" /\ s[m + 1] = "/"}
           opens == {k \in 1..(Len(s) - 3) :
                       s[k] = "/" /\ s[k + 1] = "*" /\ closes(k) # {}}
       IN IF opens = {} THEN <<>>
          ELSE LET k == SetMin(opens)
               IN SubSeq(s, k, SetMin(closes(k)) + 1)

\* /^\b(int|char|float|double|void|if|else|while|for|return|printf)\b/
ExecKeyword(s) ==
  LET hits == {k \in 1..Len(Keywords) :
                 StartsWith(s, Keywords[k]) /\ Boundary(s, Len(Keywords[k]))}
  IN IF hits = {} THEN <<>> ELSE Keywords[SetMin(hits)]

\* /^[a-zA-Z_][a-zA-Z0-9_]*/
ExecIdentifier(s) ==
  IF s # <<>> /\ s[1] \in (WordChar \ Digit)
  THEN Take(s, RunLen(s, WordChar))
  ELSE <<>>

\* /^"[^"]*"/
ExecString(s) ==
  IF s # <<>> /\ s[1] = "\"" /\ \E k \in 2..Len(s) : s[k] = "\""
  THEN Take(s, SetMin({k \in 2..Len(s) : s[k] = "\""}))
  ELSE <<>>

\* /^\b\d+(\.\d+)?(e[+-]?\d+)?\b/ : every \d+ has to take a whole run of
\* digits for the final \b to hold; the optional groups are tried first.
ExecNumber(s) ==
  LET d1 == RunLen(s, Digit)
      \* the end of e[+-]?\d+ starting after offset n, or 0
      expEnd(n) ==
        IF n < Len(s) /\ s[n + 1] = "e"
        THEN LET sg == IF n + 1 < Len(s) /\ s[n + 2] \in {"+", "-"}
                       THEN 1 ELSE 0
                 d3 == RunLen(Drop(s, n + 1 + sg), Digit)
             IN IF d3 > 0 /\ Boundary(s, n + 1 + sg + d3)
                THEN n + 1 + sg + d3
                ELSE 0
        ELSE 0
      \* the end of \.\d+ starting after offset n, or 0
      fracEnd(n) ==
        IF n < Len(s) /\ s[n + 1] = "."
        THEN LET d2 == RunLen(Drop(s, n + 1), Digit)
             IN IF d2 > 0 THEN n + 1 + d2 ELSE 0
        ELSE 0
      f == fracEnd(d1)
  IN IF d1 = 0 THEN <<>>
     ELSE IF f > 0 /\ expEnd(f) > 0 THEN Take(s, expEnd(f))
     ELSE IF f > 0 /\ Boundary(s, f) THEN Take(s, f)
     ELSE IF expEnd(d1) > 0 THEN Take(s, expEnd(d1))
     ELSE IF Boundary(s, d1) THEN Take(s, d1)
     ELSE <<>>

\* /^[+\-*\/%=<>!&|^]=?|&&|\|\||\+\+|--/
ExecOperator(s) ==
  IF s # <<>> /\ s[1] \in OpChar
  THEN IF Len(s) >= 2 /\ s[2] = "=" THEN Take(s, 2) ELSE Take(s, 1)
  ELSE LET doubles == {k \in 2..(Len(s) - 1) :
                         s[k] \in {"&", "|", "+", "-"} /\ s[k + 1] = s[k]}
       IN IF doubles = {} THEN <<>>
          ELSE SubSeq(s, SetMin(doubles), SetMin(doubles) + 1)

\* /^[;,(){}\[\].]/
ExecPunctuation(s) ==
  IF s # <<>> /\ s[1] \in PunctChar THEN Take(s, 1) ELSE <<>>

\* /^\s+/
ExecWhitespace(s) ==
  IF s # <<>> /\ s[1] \in Space THEN Take(s, RunLen(s, Space)) ELSE <<>>

\* const patterns: the pattern list in its declaration order
patterns == <<"COMMENT", "KEYWORD", "IDENTIFIER", "STRING", "NUMBER",
              "OPERATOR", "PUNCTUATION", "WHITESPACE">>

Exec(type, s) ==
  CASE type = "COMMENT" -> ExecComment(s)
    [] type = "KEYWORD" -> ExecKeyword(s)
    [] type = "IDENTIFIER" -> ExecIdentifier(s)
    [] type = "STRING" -> ExecString(s)
    [] type = "NUMBER" -> ExecNumber(s)
    [] type = "OPERATOR" -> ExecOperator(s)
    [] type = "PUNCTUATION" -> ExecPunctuation(s)
    [] type = "WHITESPACE" -> ExecWhitespace(s)

RECURSIVE BestMatch(_, _, _)
\* the for-of loop over patterns: a result replaces the match held so far
\* only when it is strictly longer.  m = [match, matchedType].
BestMatch(s, k, m) ==
  IF k > Len(patterns) THEN m
  ELSE LET r == Exec(patterns[k], s)
       IN IF r # <<>> /\ (m.match = <<>> \/ Len(r) > Len(m.match))
          THEN BestMatch(s, k + 1, [match |-> r, matchedType |-> patterns[k]])
          ELSE BestMatch(s, k + 1, m)

SelectMatch(s) == BestMatch(s, 1, [match |-> <<>>, matchedType |-> ""])

RECURSIVE Advance(_, _)
\* the loop that updates line and column over the matched text
Advance(pos, text) ==
  IF text = <<>> THEN pos
  ELSE Advance(IF Head(text) = "\n"
               THEN [line |-> pos.line + 1, column |-> 1]
               ELSE [line |-> pos.line, column |-> pos.column + 1],
               Tail(text))

----------------------------------------------------------------------------
(* compile and performLexicalAnalysis *)

Init ==
  /\ code = Str(<<>>)
  /\ pc = "idle"
  /\ remaining = Str(<<>>)
  /\ line = 1
  /\ column = 1
  /\ tokens = <<>>
  /\ spans = <<>>
  /\ currentId = 0
  /\ root = Undefined
  /\ i = 0
  /\ stack = <<>>
  /\ calls = <<>>
  /\ parseTree = Undefined
  /\ scopes = <<>>
  /\ controlFlow = Undefined
  /\ complexity = Undefined
  /\ fault = Undefined
  /\ result = Undefined
  /\ history = {}

\* compile(code) is called; control enters performLexicalAnalysis, which
\* sets up its locals.  A call starts when no other call is in progress.
Compile(c) ==
  /\ pc \in {"idle", "returned"}
  /\ code' = c
  /\ tokens' = <<>>
  /\ line' = 1
  /\ column' = 1
  /\ remaining' = c
  /\ spans' = <<>>
  /\ pc' = "lex"
  /\ fault' = Undefined
  /\ history' = IF pc = "returned" THEN history \cup {<<code, result>>}
                ELSE history
  /\ UNCHANGED <<synVars, parseTree, scopes, controlFlow, complexity, result>>

\* one iteration of while (remaining.length > 0)
LexStep ==
  /\ pc = "lex"
  /\ remaining.kind = "string"
  /\ Len(remaining.chars) > 0
  /\ LET rem == remaining.chars
         m == SelectMatch(rem)
     IN IF m.match # <<>>
        THEN LET pos == Advance([line |-> line, column |-> column], m.match)
             IN /\ tokens' = IF m.matchedType \notin {"WHITESPACE", "COMMENT"}
                             THEN Append(tokens, [type |-> m.matchedType,
                                                  value |-> m.match,
                                                  line |-> line,
                                                  column |-> column])
                             ELSE tokens
                /\ line' = pos.line
                /\ column' = pos.column
                /\ remaining' = Str(Drop(rem, Len(m.match)))
                /\ spans' = Append(spans, [type |-> m.matchedType,
                                           text |-> m.match, at |-> rem])
        ELSE /\ tokens' = Append(tokens,
                            [type |-> "ERROR", value |-> <<rem[1]>>,
                             line |-> line, column |-> column,
                             severity |-> "error",
                             message |-> Msg("Unexpected character: ", <<rem[1]>>)])
             /\ line' = line
             /\ column' = column + 1
             /\ remaining' = Str(Drop(rem, 1))
             /\ spans' = Append(spans, [type |-> "ERROR", text |-> <<rem[1]>>,
                                        at |-> rem])
  /\ UNCHANGED <<code, pc, synVars, outVars, history>>

\* the loop ends: return tokens
LexReturn ==
  /\ pc = "lex"
  /\ remaining.kind = "string"
  /\ Len(remaining.chars) = 0
  /\ pc' = "syntax"
  /\ UNCHANGED <<code, lexVars, synVars, outVars, history>>

\* remaining.length on null throws a TypeError, caught by compile
LexThrow ==
  /\ pc = "lex"
  /\ remaining.kind = "null"
  /\ fault' = [error |-> TRUE,
               message |-> "Cannot read properties of null (reading 'length')"]
  /\ pc' = "catch"
  /\ UNCHANGED <<code, lexVars, synVars, parseTree, scopes, controlFlow,
                 complexity, result, history>>

----------------------------------------------------------------------------
(* performSyntaxAnalysis and parseFunctionBody.  Token indices are the     *)
(* code's, counted from 0: tokens[k] of the code is toks[k + 1] here.      *)
(* parseFunctionBody is recursive: each invocation is a frame of `stack`   *)
(* holding its locals, and forNode while the invocation waits for the      *)
(* FOR_BODY call it made.                                                  *)

NodeId(n) == <<"node_", n>>
IdNum(id) == id[2]

\* getNextId without the increment: every id is drawn from the same number
GetNextIdRepeats(c) == [id |-> NodeId(c), next |-> c]

\* const getNextId = () => `node_${currentId++}`
GetNextId(c) == [id |-> NodeId(c), next |-> c + 1]

Inner(id, type, children) == [id |-> id, type |-> type, children |-> children]
Leaf(id, tok) ==
  [id |-> id, type |-> tok.type, value |-> tok.value, children |-> <<>>]

PushChild(node, child) ==
  [node EXCEPT !.children = Append(node.children, child)]

\* how many tokens from index k on have a value outside stops
LeafRun(toks, k, stops) ==
  IF k >= Len(toks) THEN 0
  ELSE IF \A j \in (k + 1)..Len(toks) : toks[j].value \notin stops
       THEN Len(toks) - k
       ELSE SetMin({j \in (k + 1)..Len(toks) : toks[j].value \in stops})
              - (k + 1)

RECURSIVE LeavesFrom(_, _, _, _, _)
\* the rest of a loop that pushes one leaf per token: n more leaves from
\* index k on, pushed after nodes
LeavesFrom(toks, k, n, c, nodes) ==
  IF n = 0 THEN [nodes |-> nodes, next |-> c]
  ELSE LeavesFrom(toks, k + 1, n - 1, GetNextId(c).next,
                  Append(nodes, Leaf(GetNextId(c).id, toks[k + 1])))

\* the loops that push one leaf per token: n leaves from index k on
Leaves(toks, k, n, c) == LeavesFrom(toks, k, n, c, <<>>)

\* one group of the for header: a node of the given type, its leaves up to
\* the stop token, and the i++ that skips the stop token
HeaderPart(toks, k, c, type, stop) ==
  LET g == GetNextId(c)
      n == LeafRun(toks, k, {stop})
      ls == Leaves(toks, k, n, g.next)
  IN [node |-> Inner(g.id, type, ls.nodes), i |-> k + n + 1, next |-> ls.next]

\* the for branch up to the test for a body: forNode with its header
ForHeader(toks, k, c) ==
  LET g == GetNextId(c)
      forNode == Inner(g.id, "FOR_STATEMENT", <<>>)
      k1 == k + 1
  IN IF k1 < Len(toks) /\ toks[k1 + 1].value = <<"(">>
     THEN LET init == HeaderPart(toks, k1 + 1, g.next, "FOR_INIT", <<";">>)
              cond == HeaderPart(toks, init.i, init.next, "FOR_CONDITION",
                                 <<";">>)
              incr == HeaderPart(toks, cond.i, cond.next, "FOR_INCREMENT",
                                 <<")">>)
          IN [forNode |-> PushChild(PushChild(PushChild(forNode, init.node),
                                              cond.node), incr.node),
              i |-> incr.i, next |-> incr.next]
     ELSE [forNode |-> forNode, i |-> k1, next |-> g.next]

Frame(start, open, parent) ==
  [startIndex |-> start, openBraces |-> open, i |-> start,
   braceCount |-> open, parentNode |-> parent, forNode |-> <<>>]

\* the braceCount the FOR_BODY call is entered with
BodyOpenBraces(braceCount) == braceCount

\* the top-level loop going back to the first token after a block
AfterBlockRestarts(ret) == 0

\* the index the top-level loop continues at after a block: the value
\* parseFunctionBody returned, then the loop's i++
AfterBlock(ret) == ret + 1

Top == stack[Len(stack)]
SetTop(f) == [stack EXCEPT ![Len(stack)] = f]
Looping(f) == f.i < Len(tokens) /\ f.braceCount > 0

\* performSyntaxAnalysis with currentId kept from the call before
SyntaxStartKeepsCounter ==
  /\ pc = "syntax"
  /\ LET g == GetNextId(currentId)
     IN /\ root' = Inner(g.id, "PROGRAM", <<>>)
        /\ currentId' = g.next
  /\ i' = 0
  /\ stack' = <<>>
  /\ calls' = <<>>
  /\ pc' = "parse"
  /\ UNCHANGED <<code, lexVars, outVars, history>>

\* let currentId = 0; const root = {id: getNextId(), ...}; let i = 0
SyntaxStart ==
  /\ pc = "syntax"
  /\ LET g == GetNextId(0)
     IN /\ root' = Inner(g.id, "PROGRAM", <<>>)
        /\ currentId' = g.next
  /\ i' = 0
  /\ stack' = <<>>
  /\ calls' = <<>>
  /\ pc' = "parse"
  /\ UNCHANGED <<code, lexVars, outVars, history>>

\* one iteration of the top-level while (i < tokens.length), up to the call
\* of parseFunctionBody when the statement opens a block
TopLevelStep ==
  /\ pc = "parse"
  /\ stack = <<>>
  /\ i < Len(tokens)
  /\ IF tokens[i + 1].type = "KEYWORD"
     THEN LET g == GetNextId(currentId)
              n == LeafRun(tokens, i, {<<";">>, <<"{">>})
              ls == Leaves(tokens, i, n, g.next)
              node == Inner(g.id, "STATEMENT", ls.nodes)
              j == i + n
          IN /\ currentId' = ls.next
             /\ IF j < Len(tokens) /\ tokens[j + 1].value = <<"{">>
                THEN /\ i' = j + 1
                     /\ stack' = <<Frame(j + 1, 1, node)>>
                     /\ root' = root
                ELSE /\ i' = j + 1
                     /\ stack' = stack
                     /\ root' = PushChild(root, node)
     ELSE /\ i' = i + 1
          /\ UNCHANGED <<currentId, root, stack>>
  /\ UNCHANGED <<code, pc, lexVars, calls, outVars, history>>

\* one iteration of parseFunctionBody's while (i < tokens.length &&
\* braceCount > 0), up to the recursive call when the for has a body
BodyStep ==
  /\ pc = "parse"
  /\ stack # <<>>
  /\ Looping(Top)
  /\ LET f == Top
         tok == tokens[f.i + 1]
     IN IF tok.type = "KEYWORD" /\ tok.value = <<"f", "o", "r">>
        THEN LET h == ForHeader(tokens, f.i, currentId)
             IN IF h.i < Len(tokens) /\ tokens[h.i + 1].value = <<"{">>
                THEN LET g == GetNextId(h.next)
                         bodyNode == Inner(g.id, "FOR_BODY", <<>>)
                         caller == [f EXCEPT !.i = h.i + 1,
                                             !.braceCount = f.braceCount + 1,
                                             !.forNode = h.forNode]
                     IN /\ currentId' = g.next
                        /\ stack' = Append(SetTop(caller),
                                      Frame(h.i + 1,
                                            BodyOpenBraces(caller.braceCount),
                                            bodyNode))
                ELSE /\ currentId' = h.next
                     /\ stack' = SetTop([f EXCEPT
                                   !.i = h.i,
                                   !.parentNode = PushChild(f.parentNode,
                                                            h.forNode)])
        ELSE /\ currentId' = currentId
             /\ stack' = SetTop([f EXCEPT
                           !.i = f.i + 1,
                           !.braceCount =
                             IF tok.value = <<"{">> THEN f.braceCount + 1
                             ELSE IF tok.value = <<"}">> THEN f.braceCount - 1
                             ELSE f.braceCount])
  /\ UNCHANGED <<code, pc, lexVars, root, i, calls, outVars, history>>

\* parseFunctionBody returns i; its caller goes on: a FOR_BODY call returns
\* into the for branch of the invocation below it, the outermost call into
\* the top-level loop
BodyReturn ==
  /\ pc = "parse"
  /\ stack # <<>>
  /\ ~Looping(Top)
  /\ LET f == Top
         below == Take(stack, Len(stack) - 1)
     IN /\ calls' = Append(calls, [startIndex |-> f.startIndex,
                                   openBraces |-> f.openBraces,
                                   returned |-> f.i,
                                   depth |-> Len(stack)])
        /\ IF below = <<>>
           THEN /\ i' = AfterBlock(f.i)
                /\ root' = PushChild(root, f.parentNode)
                /\ stack' = <<>>
           ELSE LET c == below[Len(below)]
                    forNode == PushChild(c.forNode, f.parentNode)
                IN /\ stack' = [below EXCEPT ![Len(below)] =
                                  [c EXCEPT !.i = f.i,
                                            !.forNode = <<>>,
                                            !.parentNode =
                                              PushChild(c.parentNode, forNode)]]
                   /\ UNCHANGED <<i, root>>
  /\ UNCHANGED <<code, pc, lexVars, currentId, outVars, history>>

\* the top-level loop ends: return root
SyntaxReturn ==
  /\ pc = "parse"
  /\ stack = <<>>
  /\ i >= Len(tokens)
  /\ parseTree' = root
  /\ pc' = "semantic"
  /\ UNCHANGED <<code, lexVars, synVars, scopes, controlFlow, complexity,
                 fault, result, history>>

----------------------------------------------------------------------------
(* Strings of the analyses *)

Chars(str) ==
  CASE str = "int" -> <<"i", "n", "t">>
    [] str = "char" -> <<"c", "h", "a", "r">>
    [] str = "float" -> <<"f", "l", "o", "a", "t">>
    [] str = "double" -> <<"d", "o", "u", "b", "l", "e">>
    [] str = "/= 2" -> <<"/", "=", " ", "2">>
    [] str = ">>= 1" -> <<">", ">", "=", " ", "1">>
    [] str = "*= 2" -> <<"*", "=", " ", "2">>
    [] str = "i++" -> <<"i", "+", "+">>
    [] str = "array[i]" -> <<"a", "r", "r", "a", "y", "[", "i", "]">>
    [] str = "array" -> <<"a", "r", "r", "a", "y">>
    [] str = "vector" -> <<"v", "e", "c", "t", "o", "r">>
    [] str = "string" -> <<"s", "t", "r", "i", "n", "g">>
    [] str = "function" -> <<"f", "u", "n", "c", "t", "i", "o", "n">>
    [] str = "recursive" -> <<"r", "e", "c", "u", "r", "s", "i", "v", "e">>

\* String.prototype.includes
Includes(s, sub) ==
  \E k \in 0..(Len(s) - Len(sub)) : SubSeq(s, k + 1, k + Len(sub)) = sub

LowerSeq == <<"a", "b", "c", "d", "e", "f", "g", "h", "i", "j", "k", "l", "m",
              "n", "o", "p", "q", "r", "s", "t", "u", "v", "w", "x", "y", "z">>
UpperSeq == <<"A", "B", "C", "D", "E", "F", "G", "H", "I", "J", "K", "L", "M",
              "N", "O", "P", "Q", "R", "S", "T", "U", "V", "W", "X", "Y", "Z">>

\* String.prototype.toLowerCase
ToLowerCase(s) ==
  [k \in 1..Len(s) |->
     IF s[k] \in Upper
     THEN LowerSeq[CHOOSE j \in 1..Len(UpperSeq) : UpperSeq[j] = s[k]]
     ELSE s[k]]

\* node.value || ''   (a node built without a value has none)
ValueOf(node) == IF "value" \in DOMAIN node THEN node.value ELSE <<>>
\* node.line || 0, node.column || 0
LineOf(node) == IF "line" \in DOMAIN node THEN node.line ELSE 0
ColumnOf(node) == IF "column" \in DOMAIN node THEN node.column ELSE 0

\* xs.map(c => c.value).join(' ')
JoinValues(xs) == JoinWith([k \in 1..Len(xs) |-> ValueOf(xs[k])], <<" ">>)

\* the index of the first element of xs that satisfies P, or 0: find()
FirstWith(xs, P(_)) ==
  IF \E k \in 1..Len(xs) : P(xs[k])
  THEN SetMin({k \in 1..Len(xs) : P(xs[k])})
  ELSE 0

----------------------------------------------------------------------------
(* performSemanticAnalysis.  The scope objects are the elements of         *)
(* st.scopes, in the order they were pushed; a scope is referred to by its *)
(* index there.  variables (a Map) is the sequence of its entries in       *)
(* insertion order.                                                        *)

DeclTypes == {Chars("int"), Chars("char"), Chars("float"), Chars("double")}

\* Map.prototype.set: an existing key keeps its place
MapSet(entries, key, val) ==
  IF \E k \in 1..Len(entries) : entries[k].key = key
  THEN [k \in 1..Len(entries) |->
          IF entries[k].key = key THEN [key |-> key, val |-> val]
          ELSE entries[k]]
  ELSE Append(entries, [key |-> key, val |-> val])

GlobalScope ==
  [id |-> <<"global">>, variables |-> <<>>, parent |-> 0, children |-> <<>>]

\* a declaration counted as initialized from 3 children on
DeclareInitializedFromThree(node, sc, st) ==
  IF /\ node.type = "STATEMENT"
     /\ Len(node.children) >= 1
     /\ node.children[1].type = "KEYWORD"
     /\ node.children[1].value \in DeclTypes
     /\ Len(node.children) >= 2
     /\ node.children[2].type = "IDENTIFIER"
  THEN [st EXCEPT !.scopes[sc].variables =
          MapSet(@, node.children[2].value,
                 [type |-> node.children[1].value,
                  initialized |-> Len(node.children) >= 3])]
  ELSE st

\* the declaration a node records in scope number sc
Declare(node, sc, st) ==
  IF /\ node.type = "STATEMENT"
     /\ Len(node.children) >= 1
     /\ node.children[1].type = "KEYWORD"
     /\ node.children[1].value \in DeclTypes
     /\ Len(node.children) >= 2
     /\ node.children[2].type = "IDENTIFIER"
  THEN [st EXCEPT !.scopes[sc].variables =
          MapSet(@, node.children[2].value,
                 [type |-> node.children[1].value,
                  initialized |-> Len(node.children) > 3])]
  ELSE st

\* a pushed scope that does not become currentScope
PushScopeKeepsCurrent(node, sc, st) ==
  IF node.type \in {"FOR_STATEMENT", "IF_STATEMENT"}
  THEN LET newScope == [id |-> st.scopes[sc].id \o <<"_">> \o node.id,
                        variables |-> <<>>,
                        parent |-> sc,
                        children |-> <<>>]
           n == Len(st.scopes) + 1
       IN [scopes |-> Append([st.scopes EXCEPT ![sc].children = Append(@, n)],
                             newScope),
           currentScope |-> st.currentScope]
  ELSE st

\* the scope a FOR_STATEMENT or IF_STATEMENT pushes below scope number sc
PushScope(node, sc, st) ==
  IF node.type \in {"FOR_STATEMENT", "IF_STATEMENT"}
  THEN LET newScope == [id |-> st.scopes[sc].id \o <<"_">> \o node.id,
                        variables |-> <<>>,
                        parent |-> sc,
                        children |-> <<>>]
           n == Len(st.scopes) + 1
       IN [scopes |-> Append([st.scopes EXCEPT ![sc].children = Append(@, n)],
                             newScope),
           currentScope |-> n]
  ELSE st

RECURSIVE AnalyzeNode(_, _, _), AnalyzeChildren(_, _)
\* analyzeNode restoring currentScope when it leaves the node
AnalyzeNodeRestoring(node, sc, st) ==
  [AnalyzeChildren(node.children, PushScope(node, sc, Declare(node, sc, st)))
     EXCEPT !.currentScope = st.currentScope]

\* const analyzeNode = (node, scope) => ...
AnalyzeNode(node, sc, st) ==
  AnalyzeChildren(node.children, PushScope(node, sc, Declare(node, sc, st)))
\* node.children.forEach(child => analyzeNode(child, currentScope))
AnalyzeChildren(nodes, st) ==
  IF nodes = <<>> THEN st
  ELSE AnalyzeChildren(Tail(nodes),
                       AnalyzeNode(Head(nodes), st.currentScope, st))

SemanticAnalysis(tree) ==
  AnalyzeNode(tree, 1, [scopes |-> <<GlobalScope>>, currentScope |-> 1])

----------------------------------------------------------------------------
(* analyzeControlFlow *)

\* child.type.includes('CONDITION'), over the types a node can have
IncludesCondition(type) ==
  type \in {"FOR_CONDITION", "WHILE_CONDITION", "IF_CONDITION"}

FlowConditions(node) ==
  IF node.type \in {"FOR_STATEMENT", "WHILE_STATEMENT"}
  THEN LET isCond(ch) == IncludesCondition(ch.type)
           k == FirstWith(node.children, isCond)
       IN IF k > 0
          THEN <<[type |-> "LOOP",
                  expression |-> JoinValues(node.children[k].children)]>>
          ELSE <<>>
  ELSE <<>>

RECURSIVE CreateFlowNode(_), CreateFlowNodes(_)
CreateFlowNode(node) ==
  [id |-> node.id, type |-> node.type,
   next |-> CreateFlowNodes(node.children),
   conditions |-> FlowConditions(node)]
\* the flow nodes of the children, last child first
CreateFlowNodesReversed(nodes) ==
  IF nodes = <<>> THEN <<>>
  ELSE CreateFlowNodes(Tail(nodes)) \o <<CreateFlowNode(Head(nodes))>>

CreateFlowNodes(nodes) ==
  IF nodes = <<>> THEN <<>>
  ELSE <<CreateFlowNode(Head(nodes))>> \o CreateFlowNodes(Tail(nodes))

----------------------------------------------------------------------------
(* estimateComplexity *)

LoopTypes == {"FOR_STATEMENT", "WHILE_STATEMENT"}

RECURSIVE IsNestedLoop(_)
\* walks the parent links upwards; a node without a parent ends the walk
IsNestedLoop(node) ==
  IF "parent" \in DOMAIN node
  THEN node.parent.type \in LoopTypes \/ IsNestedLoop(node.parent)
  ELSE FALSE

ExtractLoopCondition(node) ==
  LET isCond(ch) == ch.type \in {"FOR_CONDITION", "WHILE_CONDITION"}
      k == FirstWith(node.children, isCond)
  IN IF k > 0 THEN JoinValues(node.children[k].children) ELSE <<>>

ExtractCondition(node) ==
  LET isCond(ch) == ch.type = "IF_CONDITION"
      k == FirstWith(node.children, isCond)
  IN IF k > 0 THEN JoinValues(node.children[k].children) ELSE <<>>

HasElseBranch(node) ==
  \E k \in 1..Len(node.children) : node.children[k].type = "ELSE_STATEMENT"

RECURSIVE FindLoops(_), FindLoopsIn(_)
FindLoops(n) ==
  (IF n.type \in LoopTypes
   THEN <<[type |-> n.type, nested |-> IsNestedLoop(n),
           condition |-> ExtractLoopCondition(n)]>>
   ELSE <<>>) \o FindLoopsIn(n.children)
FindLoopsIn(nodes) ==
  IF nodes = <<>> THEN <<>>
  ELSE FindLoops(Head(nodes)) \o FindLoopsIn(Tail(nodes))

RECURSIVE FindConditionals(_), FindConditionalsIn(_)
FindConditionals(n) ==
  (IF n.type = "IF_STATEMENT"
   THEN <<[condition |-> ExtractCondition(n), hasElse |-> HasElseBranch(n)]>>
   ELSE <<>>) \o FindConditionalsIn(n.children)
FindConditionalsIn(nodes) ==
  IF nodes = <<>> THEN <<>>
  ELSE FindConditionals(Head(nodes)) \o FindConditionalsIn(Tail(nodes))

RECURSIVE FindVariables(_), FindVariablesIn(_)
FindVariables(n) ==
  (IF /\ n.type = "STATEMENT"
      /\ Len(n.children) >= 1
      /\ n.children[1].type = "KEYWORD"
      /\ Len(n.children) >= 2
      /\ ValueOf(n.children[2]) # <<>>
   THEN <<[type |-> n.children[1].value, name |-> n.children[2].value]>>
   ELSE <<>>) \o FindVariablesIn(n.children)
FindVariablesIn(nodes) ==
  IF nodes = <<>> THEN <<>>
  ELSE FindVariables(Head(nodes)) \o FindVariablesIn(Tail(nodes))

RECURSIVE NestedDepthFrom(_, _, _)
\* the forEach of calculateNestedLoopDepth, from the state (cur, best)
NestedDepthFrom(loops, cur, best) ==
  IF loops = <<>> THEN best
  ELSE IF Head(loops).nested
       THEN NestedDepthFrom(Tail(loops), cur + 1, Max2(best, cur + 1))
       ELSE NestedDepthFrom(Tail(loops), 0, best)

CalculateNestedLoopDepth(loops) == NestedDepthFrom(loops, 0, 0)

IsLogNComplexity(condition) ==
  \/ Includes(condition, Chars("/= 2"))
  \/ Includes(condition, Chars(">>= 1"))
  \/ Includes(condition, Chars("*= 2"))

\* the deepest class calculateTimeComplexity gives: O(n!)
TimeCap == 8

CalculateTimeComplexity(loops, conditionals) ==
  LET nestedDepth == CalculateNestedLoopDepth(loops)
      c1 == IF nestedDepth > 0 THEN Min2(nestedDepth + 2, TimeCap) ELSE 1
      f1 == IF nestedDepth > 0
            THEN <<Count(nestedDepth, " level(s) of nested loops")>>
            ELSE <<>>
      logs == SelectSeq(loops, LAMBDA l : IsLogNComplexity(l.condition))
      c2 == IF logs # <<>> THEN Max2(c1, 2) ELSE c1
      f2 == [k \in 1..Len(logs) |-> Text("Logarithmic loop condition")]
      f3 == IF Len(conditionals) > 0
            THEN <<Count(Len(conditionals), " conditional branches")>>
            ELSE <<>>
  IN [complexity |-> c2, factors |-> f1 \o f2 \o f3]

HasRecursion(variables) ==
  \E k \in 1..Len(variables) :
      /\ variables[k].type = Chars("function")
      /\ Includes(ToLowerCase(variables[k].name), Chars("recursive"))

CalculateSpaceComplexity(variables, loops) ==
  LET dyn == SelectSeq(variables, LAMBDA v :
               ToLowerCase(v.type) \in
                 {Chars("array"), Chars("vector"), Chars("string")})
      c1 == IF Len(dyn) > 0 THEN 2 ELSE 1
      d1 == IF Len(dyn) > 0
            THEN <<[text |-> "Dynamic memory allocation for ",
                    n |-> Len(dyn), tail |-> " variable(s)"]>>
            ELSE <<>>
      rec == HasRecursion(variables)
      c2 == IF rec THEN Max2(c1, 3) ELSE c1
      d2 == IF rec THEN <<Text("Recursive function calls")>> ELSE <<>>
  IN [complexity |-> c2,
      details |-> d1 \o d2 \o
                  <<Count(Len(variables), " variable(s) declared")>>]

CanOptimizeLoop(loop, sourceCode) ==
  \/ Includes(loop.condition, Chars("i++"))
  \/ Includes(sourceCode, Chars("array[i]"))
  \/ loop.nested

GenerateOptimizationSuggestions(time, space, loops, conditionals, sourceCode) ==
  LET s1 == IF time.complexity > 4
            THEN <<"Consider reducing nested loops">> ELSE <<>>
      s2 == IF space.complexity > 2
            THEN <<"Optimize memory usage">> ELSE <<>>
      opt == SelectSeq(loops, LAMBDA l : CanOptimizeLoop(l, sourceCode))
      s3 == [k \in 1..Len(opt) |-> "Loop optimization possible"]
      s4 == IF Len(conditionals) > 3
            THEN <<"Simplify conditional logic">> ELSE <<>>
  IN s1 \o s2 \o s3 \o s4

EstimateComplexityOf(tree, sourceCode) ==
  LET loops == FindLoops(tree)
      conditionals == FindConditionals(tree)
      variables == FindVariables(tree)
      time == CalculateTimeComplexity(loops, conditionals)
      space == CalculateSpaceComplexity(variables, loops)
  IN [time |-> [bigO |-> time.complexity, factors |-> time.factors],
      space |-> [bigO |-> space.complexity, details |-> space.details],
      suggestions |-> GenerateOptimizationSuggestions(time, space, loops,
                                                      conditionals, sourceCode)]

----------------------------------------------------------------------------
(* findLexicalErrors, findSyntaxErrors *)

\* the number of tokens taken on each side of the error token
ContextSize == 5

\* tokens.slice(start, end).map(t => t.value).join(' '); errorIndex from 0
GetErrorContext(toks, errorIndex) ==
  LET start == Max2(0, errorIndex - ContextSize)
      end == Min2(Len(toks), errorIndex + ContextSize)
  IN JoinValues(SubSeq(toks, start + 1, end))

FindLexicalErrors(toks) ==
  LET idx == SelectSeq([k \in 1..Len(toks) |-> k],
                       LAMBDA k : toks[k].type = "ERROR")
  IN [n \in 1..Len(idx) |->
        [message |-> Msg("Invalid token: ", toks[idx[n]].value),
         line |-> toks[idx[n]].line,
         column |-> toks[idx[n]].column,
         severity |-> "error",
         context |-> GetErrorContext(toks, idx[n] - 1),
         suggestions |-> <<"Check for invalid characters",
                           "Ensure proper syntax is used",
                           "Verify string literals are properly closed">>]]

Openers == {<<"{">>, <<"(">>, <<"[">>}
Closers == {<<"}">>, <<")">>, <<"]">>}

\* matchingBrackets accepting any closer for any opener
MatchingBracketsAnyPair(open, close) == open \in Openers /\ close \in Closers

MatchingBrackets(open, close) ==
  \/ open = <<"{">> /\ close = <<"}">>
  \/ open = <<"(">> /\ close = <<")">>
  \/ open = <<"[">> /\ close = <<"]">>

\* what checkNode does at the node itself; st = [bracketStack, errors]
CheckBracket(node, st) ==
  IF node.type # "PUNCTUATION" THEN st
  ELSE IF ValueOf(node) \in Openers
  THEN [st EXCEPT !.bracketStack =
          Append(@, [char |-> ValueOf(node), line |-> LineOf(node),
                     column |-> ColumnOf(node)])]
  ELSE IF ValueOf(node) \in Closers
  THEN LET empty == st.bracketStack = <<>>
           last == st.bracketStack[Len(st.bracketStack)]
           popped == IF empty THEN <<>>
                     ELSE Take(st.bracketStack, Len(st.bracketStack) - 1)
       IN IF empty \/ ~MatchingBrackets(last.char, ValueOf(node))
          THEN [bracketStack |-> popped,
                errors |-> Append(st.errors,
                  [message |-> Msg("Mismatched brackets: expected closing ",
                                   IF empty
                                   THEN <<"b", "r", "a", "c", "k", "e", "t">>
                                   ELSE last.char),
                   line |-> LineOf(node),
                   column |-> ColumnOf(node),
                   severity |-> "error",
                   suggestions |->
                     <<"Ensure all brackets are properly matched">>])]
          ELSE [st EXCEPT !.bracketStack = popped]
  ELSE st

RECURSIVE CheckNode(_, _), CheckNodes(_, _)
CheckNode(node, st) == CheckNodes(node.children, CheckBracket(node, st))
CheckNodes(nodes, st) ==
  IF nodes = <<>> THEN st
  ELSE CheckNodes(Tail(nodes), CheckNode(Head(nodes), st))

FindSyntaxErrors(tree) ==
  LET st == CheckNode(tree, [bracketStack |-> <<>>, errors |-> <<>>])
  IN st.errors \o
     [k \in 1..Len(st.bracketStack) |->
        [message |-> Msg("Unclosed bracket: ", st.bracketStack[k].char),
         line |-> st.bracketStack[k].line,
         column |-> st.bracketStack[k].column,
         severity |-> "error",
         suggestions |-> <<"Add the corresponding closing bracket">>]]

----------------------------------------------------------------------------
(* compile, after the parser *)

\* const { scopes, errors } = this.performSemanticAnalysis(parseTree, tokens)
PerformSemanticAnalysis ==
  /\ pc = "semantic"
  /\ scopes' = SemanticAnalysis(parseTree).scopes
  /\ pc' = "flow"
  /\ UNCHANGED <<code, lexVars, synVars, parseTree, controlFlow, complexity,
                 fault, result, history>>

\* const controlFlow = this.analyzeControlFlow(parseTree)
AnalyzeControlFlow ==
  /\ pc = "flow"
  /\ controlFlow' = CreateFlowNode(parseTree)
  /\ pc' = "complexity"
  /\ UNCHANGED <<code, lexVars, synVars, parseTree, scopes, complexity,
                 fault, result, history>>

\* const complexity = this.estimateComplexity(parseTree, controlFlow, code)
EstimateComplexity ==
  /\ pc = "complexity"
  /\ complexity' = EstimateComplexityOf(parseTree, code.chars)
  /\ pc' = "errors"
  /\ UNCHANGED <<code, lexVars, synVars, parseTree, scopes, controlFlow,
                 fault, result, history>>

\* the value of the try block: every stage's output and allErrors
FullResult ==
  [tokens |-> tokens,
   parseTree |-> parseTree,
   scopes |-> scopes,
   controlFlow |-> controlFlow,
   complexity |-> complexity,
   errors |-> FindLexicalErrors(tokens) \o FindSyntaxErrors(parseTree) \o <<>>]

\* the catch block reporting the fault as a warning
FatalResultAsWarning ==
  [tokens |-> <<>>,
   parseTree |-> NullValue,
   scopes |-> <<>>,
   controlFlow |-> NullValue,
   complexity |-> NullValue,
   errors |-> <<[message |-> [text |-> "Fatal error: ",
                              fault |-> IF fault.error THEN fault.message
                                        ELSE "Unknown error"],
                 line |-> 1,
                 column |-> 1,
                 severity |-> "warning",
                 suggestions |-> <<"Check for syntax errors",
                                   "Ensure all brackets are properly closed">>]>>]

\* the value of the catch block
FatalResult ==
  [tokens |-> <<>>,
   parseTree |-> NullValue,
   scopes |-> <<>>,
   controlFlow |-> NullValue,
   complexity |-> NullValue,
   errors |-> <<[message |-> [text |-> "Fatal error: ",
                              fault |-> IF fault.error THEN fault.message
                                        ELSE "Unknown error"],
                 line |-> 1,
                 column |-> 1,
                 severity |-> "error",
                 suggestions |-> <<"Check for syntax errors",
                                   "Ensure all brackets are properly closed">>]>>]

Return ==
  /\ pc = "errors"
  /\ result' = FullResult
  /\ pc' = "returned"
  /\ UNCHANGED <<code, lexVars, synVars, parseTree, scopes, controlFlow,
                 complexity, fault, history>>

Catch ==
  /\ pc = "catch"
  /\ result' = FatalResult
  /\ pc' = "returned"
  /\ UNCHANGED <<code, lexVars, synVars, parseTree, scopes, controlFlow,
                 complexity, fault, history>>

----------------------------------------------------------------------------
(* Inputs *)

\* int x; for(int i=0;i<10;i++){ x = i; }
SrcExample ==
  <<"i", "n", "t", " ", "x", ";", " ", "f", "o", "r", "(", "i", "n", "t",
     " ", "i", "=", "0", ";", "i", "<", "1", "0", ";", "i", "+", "+", ")",
     "{", " ", "x", " ", "=", " ", "i", ";", " ", "}">>

\* int x; for(int i=0;i<10;i=i+1){ x = i; }
SrcExamplePlain ==
  <<"i", "n", "t", " ", "x", ";", " ", "f", "o", "r", "(", "i", "n", "t",
     " ", "i", "=", "0", ";", "i", "<", "1", "0", ";", "i", "=", "i", "+",
     "1", ")", "{", " ", "x", " ", "=", " ", "i", ";", " ", "}">>

\* int x;
SrcDecl ==
  <<"i", "n", "t", " ", "x", ";">>

\* int x = (1;
SrcUnclosed ==
  <<"i", "n", "t", " ", "x", " ", "=", " ", "(", "1", ";">>

\* int x = (1));
SrcMismatched ==
  <<"i", "n", "t", " ", "x", " ", "=", " ", "(", "1", ")", ")", ";">>

\* if (x > 0 { y = 1; }
SrcIfMissing ==
  <<"i", "f", " ", "(", "x", " ", ">", " ", "0", " ", "{", " ", "y", " ",
     "=", " ", "1", ";", " ", "}">>

\* void f(){ } int x;
SrcAfterBlock ==
  <<"v", "o", "i", "d", " ", "f", "(", ")", "{", " ", "}", " ", "i", "n",
     "t", " ", "x", ";">>

\* void f(){for(;;){}}
SrcLoop ==
  <<"v", "o", "i", "d", " ", "f", "(", ")", "{", "f", "o", "r", "(", ";",
     ";", ")", "{", "}", "}">>

\* void f(){for(;;){for(;;){}}}
SrcLoopWrapped ==
  <<"v", "o", "i", "d", " ", "f", "(", ")", "{", "f", "o", "r", "(", ";",
     ";", ")", "{", "f", "o", "r", "(", ";", ";", ")", "{", "}", "}",
     "}">>

\* Inputs of the lexer: the concatenations of at most MaxPieces pieces,
\* and the two words of the keyword/identifier example.
MaxPieces == 3

LexPieces ==
  { <<"i", "f">>, <<"i">>, <<"_">>, <<"1">>, <<"+", "+">>, <<"&", "&">>,
    <<"=">>, <<" ">>, <<"\n">>, <<"/", "*">>, <<"*", "/">>, <<"\"">>,
    <<"@">> }

SrcIntValue == <<"i", "n", "t", "_", "v", "a", "l", "u", "e">>
SrcInt == <<"i", "n", "t">>

LexSources ==
  {Str(Concat(ps)) : ps \in SeqsUpTo(LexPieces, MaxPieces)}
    \cup {Str(SrcIntValue), Str(SrcInt)}

\* Inputs of the parser: the programs made of at most MaxFragments
\* fragments, and the named programs.
MaxFragments == 4

Fragments ==
  { <<"i", "n", "t", " ", "x">>, <<";">>, <<"{">>, <<"}">>,
    <<"f", "o", "r", "(", ";", ";", ")">>, <<"(">>, <<")">> }

\* int x = (1];
SrcWrongKind ==
  <<"i", "n", "t", " ", "x", " ", "=", " ", "(", "1", "]", ";">>

NamedPrograms ==
  {SrcExample, SrcExamplePlain, SrcDecl, SrcUnclosed, SrcMismatched,
   SrcWrongKind, SrcIfMissing, SrcAfterBlock, SrcLoop, SrcLoopWrapped}

\* void f(){for
SrcTruncFor ==
  <<"v", "o", "i", "d", " ", "f", "(", ")", "{", "f", "o", "r">>

\* void f(){for(
SrcTruncParen ==
  <<"v", "o", "i", "d", " ", "f", "(", ")", "{", "f", "o", "r", "(">>

\* void f(){for(int i
SrcTruncInit ==
  <<"v", "o", "i", "d", " ", "f", "(", ")", "{", "f", "o", "r", "(", "i",
    "n", "t", " ", "i">>

\* void f(){for(;i
SrcTruncCond ==
  <<"v", "o", "i", "d", " ", "f", "(", ")", "{", "f", "o", "r", "(", ";",
    "i">>

\* int x; void f(){for(;;)} ; int x = 1; char y; int y = 2;
SrcScoped ==
  <<"i", "n", "t", " ", "x", ";", " ", "v", "o", "i", "d", " ", "f", "(",
    ")", "{", "f", "o", "r", "(", ";", ";", ")", "}", " ", ";", " ", "i",
    "n", "t", " ", "x", " ", "=", " ", "1", ";", " ", "c", "h", "a", "r",
    " ", "y", ";", " ", "i", "n", "t", " ", "y", " ", "=", " ", "2", ";">>

\* 1 2 @ 3 4 5 6 7 8
SrcInvalid ==
  <<"1", " ", "2", " ", "@", " ", "3", " ", "4", " ", "5", " ", "6", " ",
    "7", " ", "8">>

\* void f(){for(;;){}for(;;){}}
SrcTwoLoops ==
  <<"v", "o", "i", "d", " ", "f", "(", ")", "{", "f", "o", "r", "(", ";",
    ";", ")", "{", "}", "f", "o", "r", "(", ";", ";", ")", "{", "}", "}">>

\* programs the parser reads to the end of a truncated for header, a
\* program that declares names before and after a for, one with an
\* invalid character, and one with two for loops one after the other
ExtraPrograms ==
  {SrcTruncFor, SrcTruncParen, SrcTruncInit, SrcTruncCond, SrcScoped,
   SrcInvalid, SrcTwoLoops}

Programs ==
  {Str(Concat(fs)) : fs \in SeqsUpTo(Fragments, MaxFragments)}
    \cup {Str(p) : p \in NamedPrograms \cup ExtraPrograms}

\* The programs of the calls followed to their end: the named programs and
\* the programs of at most MaxShort fragments.
MaxShort == 3

ShortPrograms ==
  {Str(Concat(fs)) : fs \in SeqsUpTo(Fragments, MaxShort)}
    \cup {Str(p) : p \in NamedPrograms \cup ExtraPrograms}

\* Inputs of the calls that follow one another: the named programs and null.
\* At most MaxHistory different earlier calls are remembered.
MaxHistory == 2

Sources == {Str(p) : p \in NamedPrograms} \cup {Null}

CanCall ==
  /\ pc \in {"idle", "returned"}
  /\ pc = "returned" =>
       Cardinality(history \cup {<<code, result>>}) <= MaxHistory

----------------------------------------------------------------------------
(* Specifications *)

\* compile, called again and again
Next ==
  \/ CanCall /\ \E c \in Sources : Compile(c)
  \/ LexStep
  \/ LexReturn
  \/ LexThrow
  \/ SyntaxStart
  \/ TopLevelStep
  \/ BodyStep
  \/ BodyReturn
  \/ SyntaxReturn
  \/ PerformSemanticAnalysis
  \/ AnalyzeControlFlow
  \/ EstimateComplexity
  \/ Return
  \/ Catch

Spec == Init /\ [][Next]_vars

\* one call of compile on a program
NextOne ==
  \/ pc = "idle" /\ \E c \in Programs : Compile(c)
  \/ LexStep
  \/ LexReturn
  \/ SyntaxStart
  \/ TopLevelStep
  \/ BodyStep
  \/ BodyReturn
  \/ SyntaxReturn
  \/ PerformSemanticAnalysis
  \/ AnalyzeControlFlow
  \/ EstimateComplexity
  \/ Return

SpecOne == Init /\ [][NextOne]_vars

\* one call of compile on a short program that is not suspended for ever:
\* whenever a step of the call is possible, a step is eventually taken
NextShort ==
  \/ pc = "idle" /\ \E c \in ShortPrograms : Compile(c)
  \/ LexStep
  \/ LexReturn
  \/ SyntaxStart
  \/ TopLevelStep
  \/ BodyStep
  \/ BodyReturn
  \/ SyntaxReturn
  \/ PerformSemanticAnalysis
  \/ AnalyzeControlFlow
  \/ EstimateComplexity
  \/ Return

SpecShortFair == Init /\ [][NextShort]_vars /\ WF_vars(NextShort)

\* one call of performLexicalAnalysis
NextLex ==
  \/ pc = "idle" /\ \E c \in LexSources : Compile(c)
  \/ LexStep
  \/ LexReturn

SpecLex == Init /\ [][NextLex]_vars

\* Inputs of analyzeControlFlow taken on its own: a PROGRAM with one
\* statement of a conditional or loop type, whose children are up to
\* MaxParts condition or body nodes of up to MaxCondLeaves leaves each,
\* numbered in construction order.
MaxParts == 2
MaxCondLeaves == 2

StatementTypes == {"IF_STATEMENT", "FOR_STATEMENT", "WHILE_STATEMENT"}
PartTypes == {"IF_CONDITION", "FOR_CONDITION", "IF_BODY"}
CondTokens ==
  {[type |-> "IDENTIFIER", value |-> <<"x">>],
   [type |-> "NUMBER", value |-> <<"1">>]}

PartShapes ==
  [type : PartTypes, leaves : SeqsUpTo(CondTokens, MaxCondLeaves)]

RECURSIVE BuildParts(_, _)
BuildParts(parts, c) ==
  IF parts = <<>> THEN <<>>
  ELSE LET part == Head(parts)
           leaves == [k \in 1..Len(part.leaves) |->
                        Leaf(NodeId(c + k), part.leaves[k])]
       IN <<Inner(NodeId(c), part.type, leaves)>>
            \o BuildParts(Tail(parts), c + 1 + Len(part.leaves))

FlowTree(type, parts) ==
  Inner(NodeId(0), "PROGRAM", <<Inner(NodeId(1), type, BuildParts(parts, 2))>>)

FlowTrees ==
  {FlowTree(type, parts) :
     type \in StatementTypes, parts \in SeqsUpTo(PartShapes, MaxParts)}

\* analyzeControlFlow is about to be applied to a tree
InitFlow ==
  /\ code = Str(<<>>)
  /\ pc = "flow"
  /\ remaining = Str(<<>>)
  /\ line = 1
  /\ column = 1
  /\ tokens = <<>>
  /\ spans = <<>>
  /\ currentId = 0
  /\ root = Undefined
  /\ i = 0
  /\ stack = <<>>
  /\ calls = <<>>
  /\ parseTree \in FlowTrees
  /\ scopes = <<>>
  /\ controlFlow = Undefined
  /\ complexity = Undefined
  /\ fault = Undefined
  /\ result = Undefined
  /\ history = {}

NextFlow == AnalyzeControlFlow

SpecFlow == InitFlow /\ [][NextFlow]_vars

----------------------------------------------------------------------------
(* Properties *)

RECURSIVE Preorder(_), PreorderIn(_)
\* the nodes of a tree, parents before children, children in order
Preorder(n) == <<n>> \o PreorderIn(n.children)
PreorderIn(nodes) ==
  IF nodes = <<>> THEN <<>>
  ELSE Preorder(Head(nodes)) \o PreorderIn(Tail(nodes))

\* the parser has returned the tree of the call in progress
Parsed ==
  /\ pc \in {"semantic", "flow", "complexity", "errors", "returned"}
  /\ fault = Undefined

\* the call in progress has returned the result of a completed try block
Completed == pc = "returned" /\ fault = Undefined

SpanTexts == [k \in 1..Len(spans) |-> spans[k].text]
EmittedSpans ==
  SelectSeq(spans, LAMBDA sp : sp.type \notin {"WHITESPACE", "COMMENT"})

\* C1: while and after the lexer runs on a string, the texts it took so far
\* (tokens, ERROR characters and skipped whitespace/comments, in order)
\* followed by the input still to read are exactly the source, and the
\* tokens are the texts that were not skipped: nothing is lost, duplicated
\* or reordered.
C1_FullyConsumed ==
  (pc \in {"lex", "syntax"} /\ code.kind = "string") =>
    /\ Concat(SpanTexts) \o remaining.chars = code.chars
    /\ [k \in 1..Len(tokens) |-> tokens[k].value]
         = [k \in 1..Len(EmittedSpans) |-> EmittedSpans[k].text]

\* what a pattern matches at the cursor itself
AnchoredExec(type, s) ==
  LET r == Exec(type, s)
  IN IF r # <<>> /\ StartsWith(s, r) THEN r ELSE <<>>

LongestFirst(sp) ==
  LET here == {k \in 1..Len(patterns) : AnchoredExec(patterns[k], sp.at) # <<>>}
  IN IF here = {} THEN sp.type = "ERROR"
     ELSE \E t \in here :
            /\ sp.type = patterns[t]
            /\ sp.text = AnchoredExec(patterns[t], sp.at)
            /\ \A k \in here :
                 LET len == Len(AnchoredExec(patterns[k], sp.at))
                 IN len < Len(sp.text) \/ (len = Len(sp.text) /\ t <= k)

\* C2: at every cursor position the lexer takes the longest of the matches
\* the patterns have there, the first listed pattern on a tie (ERROR when
\* none matches); int_value is one IDENTIFIER and a bare int is a KEYWORD.
C2_LongestMatch ==
  /\ \A k \in 1..Len(spans) : LongestFirst(spans[k])
  /\ (pc = "syntax" /\ code = Str(SrcIntValue)) =>
       /\ Len(tokens) = 1
       /\ tokens[1].type = "IDENTIFIER"
       /\ tokens[1].value = SrcIntValue
  /\ (pc = "syntax" /\ code = Str(SrcInt)) =>
       /\ Len(tokens) = 1
       /\ tokens[1].type = "KEYWORD"

\* C3: in the tree the parser returns the root is node_0, no two nodes
\* share an id, a node's id number is below those of its children, the id
\* numbers of a node's children increase in child order, and every id
\* drawn from the counter belongs to a node of the tree.
C3_NodeIds ==
  Parsed =>
    LET ns == Preorder(parseTree)
    IN /\ parseTree.id = NodeId(0)
       /\ \A a, b \in 1..Len(ns) : a # b => ns[a].id # ns[b].id
       /\ \A a \in 1..Len(ns) :
            \A c \in 1..Len(ns[a].children) :
              /\ IdNum(ns[a].id) < IdNum(ns[a].children[c].id)
              /\ c > 1 => IdNum(ns[a].children[c - 1].id)
                            < IdNum(ns[a].children[c].id)
       /\ {IdNum(ns[a].id) : a \in 1..Len(ns)} = 0..(currentId - 1)

\* a returned tree with a for loop that has a body, of at least 10 nodes
C3_Witness ==
  /\ Parsed
  /\ currentId >= 10
  /\ \E a \in 1..Len(Preorder(parseTree)) :
       Preorder(parseTree)[a].type = "FOR_BODY"

CloserOf(open) ==
  CASE open = <<"{">> -> <<"}">>
    [] open = <<"(">> -> <<")">>
    [] open = <<"[">> -> <<"]">>

RECURSIVE ScanBrackets(_, _, _)
\* the bracket diagnostics of a sequence of bracket characters: one
\* Mismatched per closer that finds the stack empty or pops an opener of
\* another kind, then one Unclosed per opener left on the stack
ScanBrackets(vals, stk, out) ==
  IF vals = <<>>
  THEN out \o [k \in 1..Len(stk) |-> Msg("Unclosed bracket: ", stk[k])]
  ELSE LET v == Head(vals)
       IN IF v \in {<<"{">>, <<"(">>, <<"[">>}
          THEN ScanBrackets(Tail(vals), Append(stk, v), out)
          ELSE IF stk = <<>>
          THEN ScanBrackets(Tail(vals), stk,
                 Append(out, Msg("Mismatched brackets: expected closing ",
                                 <<"b", "r", "a", "c", "k", "e", "t">>)))
          ELSE IF CloserOf(stk[Len(stk)]) = v
          THEN ScanBrackets(Tail(vals), Take(stk, Len(stk) - 1), out)
          ELSE ScanBrackets(Tail(vals), Take(stk, Len(stk) - 1),
                 Append(out, Msg("Mismatched brackets: expected closing ",
                                 stk[Len(stk)])))

\* the bracket characters of the PUNCTUATION leaves of a tree, in pre-order
BracketLeaves(tree) ==
  LET ls == SelectSeq(Preorder(tree), LAMBDA n :
              /\ n.type = "PUNCTUATION"
              /\ ValueOf(n) \in {<<"{">>, <<"(">>, <<"[">>,
                                 <<"}">>, <<")">>, <<"]">>})
  IN [k \in 1..Len(ls) |-> ls[k].value]

\* the messages of the bracket diagnostics among errors, in order
BracketMessages(errors) ==
  LET ds == SelectSeq(errors, LAMBDA e :
              e.message.text \in {"Mismatched brackets: expected closing ",
                                  "Unclosed bracket: "})
  IN [k \in 1..Len(ds) |-> ds[k].message]

\* C4: the bracket diagnostics compile returns are those of a stack scan of
\* the tree's PUNCTUATION leaves in pre-order: one Mismatched per closer
\* that finds the stack empty or pops another kind of opener, one Unclosed
\* per opener left, nothing else; so `int x = (1;` gives one Unclosed (,
\* `int x = (1));` one Mismatched, `if (x > 0 { y = 1; }` one Unclosed (.
C4_BracketDiagnostics ==
  Completed =>
    LET msgs == BracketMessages(result.errors)
    IN /\ msgs = ScanBrackets(BracketLeaves(result.parseTree), <<>>, <<>>)
       /\ code = Str(SrcUnclosed) =>
            msgs = <<Msg("Unclosed bracket: ", <<"(">>)>>
       /\ code = Str(SrcMismatched) =>
            /\ Len(msgs) = 1
            /\ msgs[1].text = "Mismatched brackets: expected closing "
       /\ code = Str(SrcIfMissing) =>
            msgs = <<Msg("Unclosed bracket: ", <<"(">>)>>

\* a result with a Mismatched and an Unclosed diagnostic, the Mismatched
\* one for a closer that popped an opener of another kind
C4_Witness ==
  /\ Completed
  /\ \E a, b \in 1..Len(BracketMessages(result.errors)) :
       /\ BracketMessages(result.errors)[a]
            = Msg("Mismatched brackets: expected closing ", <<"(">>)
       /\ BracketMessages(result.errors)[b].text = "Unclosed bracket: "

\* the programs whose only loop is one un-nested for loop with a body
OneLoopPrograms == {Str(SrcExample), Str(SrcExamplePlain), Str(SrcLoop)}

\* the time class compile reports for a program without loops
LoopFreeClass == CalculateTimeComplexity(<<>>, <<>>).complexity

IsLoopCountLine(f) ==
  /\ DOMAIN f = {"n", "text"}
  /\ f.text \in {" loop(s)", " level(s) of nested loops"}

\* C5: for a program whose only loop is one un-nested for loop with a body,
\* compile reports a time class above that of a loop-free program, and the
\* time factors hold exactly one loop-count line, which counts 1 loop.
C5_SingleLoopClass ==
  (Completed /\ code \in OneLoopPrograms) =>
    /\ result.complexity.time.bigO > LoopFreeClass
    /\ Len(SelectSeq(result.complexity.time.factors, IsLoopCountLine)) = 1
    /\ \A k \in 1..Len(result.complexity.time.factors) :
         IsLoopCountLine(result.complexity.time.factors[k]) =>
           result.complexity.time.factors[k].n = 1

RECURSIVE BalancedFrom(_, _)
\* every ( [ { of s is closed by its own closer, properly nested
BalancedFrom(s, stk) ==
  IF s = <<>> THEN stk = <<>>
  ELSE IF <<Head(s)>> \in {<<"{">>, <<"(">>, <<"[">>}
  THEN BalancedFrom(Tail(s), Append(stk, <<Head(s)>>))
  ELSE IF <<Head(s)>> \in {<<"}">>, <<")">>, <<"]">>}
  THEN /\ stk # <<>>
       /\ CloserOf(stk[Len(stk)]) = <<Head(s)>>
       /\ BalancedFrom(Tail(s), Take(stk, Len(stk) - 1))
  ELSE BalancedFrom(Tail(s), stk)

\* a source of letters, digits, spaces, operators and punctuation only,
\* from which the lexer made no ERROR token
NoInvalidCharacter ==
  /\ \A k \in 1..Len(code.chars) :
       code.chars[k] \in WordChar \cup Space \cup OpChar \cup PunctChar
  /\ \A k \in 1..Len(tokens) : tokens[k].type # "ERROR"

\* C6: for a source without invalid characters whose brackets are all
\* closed in properly nested order, compile returns no diagnostic.
C6_NoDiagnostics ==
  (Completed /\ NoInvalidCharacter /\ BalancedFrom(code.chars, <<>>)) =>
    result.errors = <<>>

\* for (;;) { wrapped around a loop
WrapOpen == <<"f", "o", "r", "(", ";", ";", ")", "{">>

\* b is a with one for loop of a (from its `for` to the } that ends its
\* body) put inside the body of one more for loop
IsWrapOf(a, b) ==
  \E p \in 1..Len(a) : \E q \in p..Len(a) :
    LET loop == SubSeq(a, p, q)
    IN /\ StartsWith(loop, <<"f", "o", "r", "(">>)
       /\ loop[Len(loop)] = "}"
       /\ BalancedFrom(loop, <<>>)
       /\ b = Take(a, p - 1) \o WrapOpen \o loop \o <<"}">> \o Drop(a, q)

IsDepthLine(f) ==
  /\ DOMAIN f = {"n", "text"}
  /\ f.text \in {" level(s) of nested loops", "Maximum nesting depth: "}

\* the greatest depth the factors state, 0 when they state none
StatedDepth(factors) ==
  LET ds == {factors[k].n : k \in {j \in 1..Len(factors) :
                                     IsDepthLine(factors[j])}}
  IN IF ds = {} THEN 0 ELSE SetMax(ds)

\* C7: when compile has run on a program and then runs on the program
\* with one of its loops wrapped in one more for loop, the second time
\* class is at least the first and the second factors state a greater
\* nesting depth than the first.
C7_WrapMonotone ==
  (Completed /\ code.kind = "string") =>
    \A h \in history :
      (h[1].kind = "string" /\ IsWrapOf(h[1].chars, code.chars)) =>
        /\ result.complexity.time.bigO >= h[2].complexity.time.bigO
        /\ StatedDepth(result.complexity.time.factors)
             > StatedDepth(h[2].complexity.time.factors)

\* C8: a call of compile returns what every earlier call on the same
\* source returned, whatever calls came in between, and the tree it
\* returns is numbered from node_0.
C8_Deterministic ==
  pc = "returned" =>
    /\ \A h \in history : h[1] = code => h[2] = result
    /\ result.parseTree # NullValue => result.parseTree.id = NodeId(0)

\* a source compiled a second time after a call on another source, with a
\* tree that has statements
C8_Witness ==
  /\ Completed
  /\ \E h \in history : h[1] = code
  /\ \E h \in history : h[1] # code /\ h[2].parseTree # NullValue
  /\ Len(result.parseTree.children) > 0

FullShape(r) ==
  /\ r.tokens = tokens
  /\ r.parseTree = parseTree /\ r.parseTree # NullValue
  /\ r.parseTree.type = "PROGRAM"
  /\ r.scopes = scopes /\ Len(r.scopes) >= 1
  /\ r.controlFlow = controlFlow /\ r.controlFlow # NullValue
  /\ r.controlFlow.id = r.parseTree.id
  /\ r.complexity = complexity /\ r.complexity # NullValue
  /\ r.complexity.time.bigO >= 1

FatalShape(r) ==
  /\ r.tokens = <<>>
  /\ r.scopes = <<>>
  /\ r.parseTree = NullValue
  /\ r.controlFlow = NullValue
  /\ r.complexity = NullValue
  /\ Len(r.errors) = 1
  /\ r.errors[1].severity = "error"
  /\ r.errors[1].message = [text |-> "Fatal error: ", fault |-> fault.message]

\* C9: a fault never leaves compile, and a call returns either the output
\* of every stage, with parseTree, controlFlow and complexity not null, or,
\* when a stage raised a fault, empty tokens and scopes, null parseTree,
\* controlFlow and complexity and one error diagnostic that embeds the
\* fault's description; never a mixture.
C9_AllOrNothing ==
  /\ fault # Undefined => pc \in {"catch", "returned"}
  /\ pc = "returned" =>
       /\ IF fault = Undefined THEN FullShape(result) ELSE FatalShape(result)
       /\ Cardinality({result.parseTree = NullValue,
                       result.controlFlow = NullValue,
                       result.complexity = NullValue,
                       result.tokens = <<>> /\ result.scopes = <<>>
                         /\ fault # Undefined}) = 1

\* a call that faulted after an earlier call had completed
C9_Witness ==
  /\ pc = "returned"
  /\ fault # Undefined
  /\ \E h \in history : h[2].parseTree # NullValue

RECURSIVE MatchClose(_, _, _)
\* the index after the } that closes the block entered at depth d before
\* index k, or the number of tokens when it is never closed
MatchClose(toks, k, d) ==
  IF k >= Len(toks) THEN Len(toks)
  ELSE IF toks[k + 1].value = <<"{">> THEN MatchClose(toks, k + 1, d + 1)
  ELSE IF toks[k + 1].value = <<"}">>
  THEN IF d = 1 THEN k + 1 ELSE MatchClose(toks, k + 1, d - 1)
  ELSE MatchClose(toks, k + 1, d)

RECURSIVE TopStatements(_, _)
\* the token runs of the statements the top-level keywords open, from
\* index k on: a keyword and the tokens after it up to the next ; or { ,
\* the scan going on after the ; or after the block the { opens
TopStatements(toks, k) ==
  IF k >= Len(toks) THEN <<>>
  ELSE IF toks[k + 1].type = "KEYWORD"
  THEN LET ends == {j \in k..(Len(toks) - 1) :
                      toks[j + 1].value \in {<<";">>, <<"{">>}}
           j == IF ends = {} THEN Len(toks) ELSE SetMin(ends)
           run == [n \in 1..(j - k) |-> toks[k + n].value]
       IN <<run>> \o
          (IF j < Len(toks) /\ toks[j + 1].value = <<"{">>
           THEN TopStatements(toks, MatchClose(toks, j + 1, 1))
           ELSE TopStatements(toks, j + 1))
  ELSE TopStatements(toks, k + 1)

RECURSIVE StrayBrace(_, _)
\* the top-level scan from index k on meets a { that no statement opened
StrayBrace(toks, k) ==
  IF k >= Len(toks) THEN FALSE
  ELSE IF toks[k + 1].type = "KEYWORD"
  THEN LET ends == {j \in k..(Len(toks) - 1) :
                      toks[j + 1].value \in {<<";">>, <<"{">>}}
           j == IF ends = {} THEN Len(toks) ELSE SetMin(ends)
       IN IF j < Len(toks) /\ toks[j + 1].value = <<"{">>
          THEN StrayBrace(toks, MatchClose(toks, j + 1, 1))
          ELSE StrayBrace(toks, j + 1)
  ELSE toks[k + 1].value = <<"{">> \/ StrayBrace(toks, k + 1)

\* the values of the leaf children of a node, in order
LeafValues(node) ==
  LET ls == SelectSeq(node.children, LAMBDA c : "value" \in DOMAIN c)
  IN [k \in 1..Len(ls) |-> ls[k].value]

\* C10: the children of the root are, in source order, one STATEMENT per
\* top-level KEYWORD token (a keyword right after the } of a block
\* included), with the keyword and the tokens up to the next ; or { as its
\* leaves; other top-level tokens are attached nowhere.
C10_TopLevelStatements ==
  (Parsed /\ ~StrayBrace(tokens, 0)) =>
    /\ \A k \in 1..Len(parseTree.children) :
         parseTree.children[k].type = "STATEMENT"
    /\ [k \in 1..Len(parseTree.children) |->
          LeafValues(parseTree.children[k])] = TopStatements(tokens, 0)

RECURSIVE NetBraces(_, _, _)
\* the { minus the } among the tokens at indices from .. to - 1
NetBraces(toks, from, to) ==
  IF from >= to \/ from >= Len(toks) THEN 0
  ELSE (IF toks[from + 1].value = <<"{">> THEN 1
        ELSE IF toks[from + 1].value = <<"}">> THEN -1
        ELSE 0) + NetBraces(toks, from + 1, to)

\* C11: every call of parseFunctionBody that has returned, from the top
\* level or for a FOR_BODY, returned the index after the } that matches the
\* { before its start index (the number of tokens when there is none), and
\* the brace count of every invocation in progress is the count it was
\* entered with plus the braces it and its callees have read since.
C11_BlockReturn ==
  (pc = "parse" \/ Parsed) =>
    /\ \A k \in 1..Len(calls) :
         calls[k].returned = MatchClose(tokens, calls[k].startIndex, 1)
    /\ \A k \in 1..Len(stack) :
         stack[k].braceCount
           = stack[k].openBraces
               + NetBraces(tokens, stack[k].startIndex, stack[k].i)

TwoCharOperators ==
  {<<"+", "+">>, <<"-", "-">>, <<"&", "&">>, <<"|", "|">>}

\* C12: when the input at the cursor begins with ++, --, && or ||, the
\* lexer takes that two-character text as one OPERATOR token.
C12_TwoCharOperators ==
  \A k \in 1..Len(spans) :
    \A op \in TwoCharOperators :
      StartsWith(spans[k].at, op) =>
        /\ spans[k].type = "OPERATOR"
        /\ spans[k].text = op

\* the characters of the source consumed before the lexer took sp
ConsumedBefore(sp) == Take(code.chars, Len(code.chars) - Len(sp.at))

\* the 1-based line and column of the character that follows prefix
LineAfter(prefix) ==
  1 + Cardinality({k \in 1..Len(prefix) : prefix[k] = "\n"})
ColumnAfter(prefix) ==
  LET nls == {k \in 1..Len(prefix) : prefix[k] = "\n"}
  IN 1 + Len(prefix) - (IF nls = {} THEN 0 ELSE SetMax(nls))

\* C13: every token, ERROR tokens included, carries the line and column of
\* its first character: 1 plus the newlines consumed before it, and 1 plus
\* the characters consumed since the last of them (or since the start),
\* skipped whitespace and comments and multi-line tokens counted.
C13_TokenPositions ==
  (pc \in {"lex", "syntax"} /\ code.kind = "string") =>
    \A k \in 1..Len(tokens) :
      /\ tokens[k].line = LineAfter(ConsumedBefore(EmittedSpans[k]))
      /\ tokens[k].column = ColumnAfter(ConsumedBefore(EmittedSpans[k]))

\* performSemanticAnalysis has returned the scopes of the call in progress
Analysed ==
  /\ pc \in {"flow", "complexity", "errors", "returned"}
  /\ fault = Undefined

\* a STATEMENT whose first child is a KEYWORD int, char, float or double
\* and whose second child is an IDENTIFIER
IsDeclaration(n) ==
  /\ n.type = "STATEMENT"
  /\ Len(n.children) >= 2
  /\ n.children[1].type = "KEYWORD"
  /\ n.children[1].value \in {<<"i", "n", "t">>, <<"c", "h", "a", "r">>,
                              <<"f", "l", "o", "a", "t">>,
                              <<"d", "o", "u", "b", "l", "e">>}
  /\ n.children[2].type = "IDENTIFIER"

\* the positions, in the pre-order of the tree, of the declarations
Declarations ==
  {a \in 1..Len(Preorder(parseTree)) : IsDeclaration(Preorder(parseTree)[a])}

\* the positions of the nodes that push a scope
Pushes ==
  {a \in 1..Len(Preorder(parseTree)) :
     Preorder(parseTree)[a].type \in {"FOR_STATEMENT", "IF_STATEMENT"}}

\* the number, in push order, of the scope pushed last before the walk
\* reaches position a (1 is the global scope)
ScopeAt(a) == 1 + Cardinality({b \in Pushes : b < a})

DeclaredName(a) == Preorder(parseTree)[a].children[2].value
DeclaredEntry(a) ==
  [type |-> Preorder(parseTree)[a].children[1].value,
   initialized |-> Len(Preorder(parseTree)[a].children) > 3]

\* C14: the entries of the scopes are exactly the declarations: each is
\* keyed by the second child's text of a STATEMENT that starts with int,
\* char, float or double and an IDENTIFIER, has the keyword as type and
\* initialized true iff the statement has more than 3 children; every such
\* statement has an entry, no scope holds a name twice, and an entry is
\* that of the last declaration of its name in its scope.
C14_Declarations ==
  Analysed =>
    /\ \A a \in Declarations :
         \E s \in 1..Len(scopes) : \E e \in 1..Len(scopes[s].variables) :
           scopes[s].variables[e].key = DeclaredName(a)
    /\ \A s \in 1..Len(scopes) :
         \A e \in 1..Len(scopes[s].variables) :
           LET entry == scopes[s].variables[e]
               same == {a \in Declarations :
                          ScopeAt(a) = s /\ DeclaredName(a) = entry.key}
           IN /\ same # {}
              /\ entry.val = DeclaredEntry(SetMax(same))
              /\ \A d \in 1..Len(scopes[s].variables) :
                   scopes[s].variables[d].key = entry.key => d = e

\* a name declared twice in one scope, with different types
C14_Witness ==
  /\ Analysed
  /\ \E a, b \in Declarations :
       /\ a < b
       /\ ScopeAt(a) = ScopeAt(b)
       /\ DeclaredName(a) = DeclaredName(b)
       /\ DeclaredEntry(a).type # DeclaredEntry(b).type
       /\ DeclaredEntry(b).initialized

\* C15: a pushed scope is never popped: scopes are pushed one per
\* FOR_STATEMENT or IF_STATEMENT in the order of the walk, and every
\* declaration the walk reaches after such a node, top-level statements
\* after the enclosing statement included, is recorded in the scope pushed
\* last before it, and in no other scope.
C15_ScopeNeverPopped ==
  Analysed =>
    /\ Len(scopes) = 1 + Cardinality(Pushes)
    /\ \A b \in Pushes :
         LET id == scopes[ScopeAt(b) + 1].id
         IN SubSeq(id, Len(id) - 1, Len(id)) = Preorder(parseTree)[b].id
    /\ \A a \in Declarations :
         \E e \in 1..Len(scopes[ScopeAt(a)].variables) :
           scopes[ScopeAt(a)].variables[e].key = DeclaredName(a)
    /\ \A s \in 1..Len(scopes) :
         \A e \in 1..Len(scopes[s].variables) :
           \E a \in Declarations :
             /\ ScopeAt(a) = s
             /\ DeclaredName(a) = scopes[s].variables[e].key
             /\ DeclaredEntry(a) = scopes[s].variables[e].val

\* a top-level declaration after the statement that holds a for, recorded
\* in the scope of the for, the global scope holding an earlier declaration
C15_Witness ==
  /\ Analysed
  /\ scopes[1].variables # <<>>
  /\ \E k \in 1..Len(parseTree.children) :
       \E a \in Declarations :
         /\ Preorder(parseTree)[a] = parseTree.children[k]
         /\ ScopeAt(a) > 1
         /\ \E e \in 1..Len(scopes[ScopeAt(a)].variables) :
              scopes[ScopeAt(a)].variables[e].key = DeclaredName(a)

\* analyzeControlFlow has returned the flow of the call in progress
FlowBuilt ==
  /\ pc \in {"complexity", "errors", "returned"}
  /\ fault = Undefined

RECURSIVE FlowPreorder(_), FlowPreorderIn(_)
\* the flow nodes reached from f along next, a node before its next list
FlowPreorder(f) == <<f>> \o FlowPreorderIn(f.next)
FlowPreorderIn(fs) ==
  IF fs = <<>> THEN <<>>
  ELSE FlowPreorder(Head(fs)) \o FlowPreorderIn(Tail(fs))

\* C16: the flow analyzeControlFlow returns has one node per parse node,
\* with the same id and type, whose next list holds the flow nodes of the
\* parse node's children in the same order and number; no flow node is
\* reached twice.
C16_FlowIsomorphic ==
  FlowBuilt =>
    LET ps == Preorder(parseTree)
        fs == FlowPreorder(controlFlow)
    IN /\ Len(fs) = Len(ps)
       /\ \A a \in 1..Len(fs) :
            /\ fs[a].id = ps[a].id
            /\ fs[a].type = ps[a].type
            /\ Len(fs[a].next) = Len(ps[a].children)
            /\ \A c \in 1..Len(fs[a].next) :
                 /\ fs[a].next[c].id = ps[a].children[c].id
                 /\ fs[a].next[c].type = ps[a].children[c].type
       /\ \A a, b \in 1..Len(fs) : a # b => fs[a].id # fs[b].id

\* the flow of a tree with a for body and a node of several children
C16_Witness ==
  /\ FlowBuilt
  /\ Len(FlowPreorder(controlFlow)) >= 10
  /\ \E a \in 1..Len(FlowPreorder(controlFlow)) :
       /\ FlowPreorder(controlFlow)[a].type = "FOR_STATEMENT"
       /\ Len(FlowPreorder(controlFlow)[a].next) = 4
       /\ FlowPreorder(controlFlow)[a].next[4].type = "FOR_BODY"

LexicalDiagnostics(errors) ==
  SelectSeq(errors, LAMBDA e : e.message.text = "Invalid token: ")

\* the indices, from 0, of the ERROR tokens, in order
ErrorIndices ==
  SelectSeq([k \in 1..Len(tokens) |-> k - 1],
            LAMBDA k : tokens[k + 1].type = "ERROR")

\* C18: compile returns one lexical diagnostic per ERROR token, in token
\* order and none for other tokens: message 'Invalid token: <text>', the
\* token's line and column, severity error, and as context the values of
\* the tokens from index max(0, k-5) to min(n-1, k+5) joined by spaces.
C18_LexicalContext ==
  Completed =>
    LET ds == LexicalDiagnostics(result.errors)
        n == Len(tokens)
    IN /\ Len(ds) = Len(ErrorIndices)
       /\ \A j \in 1..Len(ds) :
            LET k == ErrorIndices[j]
                first == IF k - 5 > 0 THEN k - 5 ELSE 0
                last == IF k + 5 < n - 1 THEN k + 5 ELSE n - 1
            IN /\ ds[j].message = Msg("Invalid token: ", tokens[k + 1].value)
               /\ ds[j].line = tokens[k + 1].line
               /\ ds[j].column = tokens[k + 1].column
               /\ ds[j].severity = "error"
               /\ ds[j].context
                    = JoinWith([m \in 1..(last - first + 1) |->
                                  tokens[first + m].value], <<" ">>)

\* the bracket diagnostics among errors, in order
BracketDiagnostics(errors) ==
  SelectSeq(errors, LAMBDA e :
    e.message.text \in {"Mismatched brackets: expected closing ",
                        "Unclosed bracket: "})

\* C19: every bracket diagnostic compile returns carries the line and
\* column the lexer gave a bracket token: a Mismatched diagnostic those of
\* a closing bracket token, an Unclosed diagnostic those of a token of the
\* opener it names.
C19_BracketPositions ==
  Completed =>
    \A j \in 1..Len(BracketDiagnostics(result.errors)) :
      LET d == BracketDiagnostics(result.errors)[j]
      IN \E k \in 1..Len(tokens) :
           /\ tokens[k].type = "PUNCTUATION"
           /\ d.line = tokens[k].line
           /\ d.column = tokens[k].column
           /\ IF d.message.text = "Unclosed bracket: "
              THEN tokens[k].value = d.message.arg
              ELSE tokens[k].value \in {<<"}">>, <<")">>, <<"]">>}

\* what one step of a loop does to the loop's measure
StepProgress ==
  /\ LexStep => Len(remaining'.chars) < Len(remaining.chars)
  /\ TopLevelStep => i' > i
  /\ BodyStep => stack'[Len(stack)].i > stack[Len(stack)].i
  /\ BodyReturn =>
       IF Len(stack) = 1
       THEN i' >= stack[1].startIndex
       ELSE stack'[Len(stack) - 1].i >= stack[Len(stack)].startIndex

\* C20: every iteration of the lexer loop shortens the remaining input,
\* every iteration of the top-level loop and of a parseFunctionBody loop
\* raises its token index, a FOR_BODY call returning an index not below
\* the one it started at, truncated for headers and unclosed blocks
\* included; and every call of compile that is not suspended returns.
C20_Terminates ==
  /\ [][StepProgress]_vars
  /\ <>(pc = "returned")

\* a call that has returned although a truncated for header took the token
\* index past the end of the tokens
C20_Witness ==
  /\ Completed
  /\ \E k \in 1..Len(calls) : calls[k].returned > Len(tokens)

\* an iteration of parseFunctionBody starts on a token of the invocation's
\* block, its closing } included; what the iteration builds (the
\* FOR_STATEMENT, when the token is a `for`) goes under the invocation's
\* parentNode, the FOR_BODY or STATEMENT of that block
ReadsOwnBlock ==
  BodyStep => Top.i < MatchClose(tokens, Top.startIndex, 1)

\* C21: inside a block, a for-loop is attached under the node of the block
\* its `for` token lies in (a FOR_BODY holds only the loops between its {
\* and its matching }, a loop after a closed body is a sibling of the
\* earlier FOR_STATEMENT), and no invocation of parseFunctionBody reads a
\* token after the } that closes its block.
C21_ForBodyContents == [][ReadsOwnBlock]_vars

\* the node, in the pre-order of the tree, that pushed scope number k + 1
PushNode(k) ==
  Preorder(parseTree)[CHOOSE b \in Pushes : ScopeAt(b) = k]

\* C22: the scopes form one chain in creation order: the list is the global
\* scope followed by one scope per FOR_STATEMENT or IF_STATEMENT in the
\* order of the walk, the first pushed scope has the global scope as parent
\* and every later one the scope pushed just before it, whose id its own id
\* extends by the id of its node, and every scope but the last has exactly
\* one child, the scope pushed after it; the returned list is that list.
C22_ScopeChain ==
  /\ Analysed =>
       /\ Len(scopes) = 1 + Cardinality(Pushes)
       /\ scopes[1].id = <<"global">>
       /\ scopes[1].parent = 0
       /\ \A k \in 2..Len(scopes) :
            /\ scopes[k].parent = k - 1
            /\ scopes[k].id = scopes[k - 1].id \o <<"_">> \o PushNode(k - 1).id
       /\ \A k \in 1..Len(scopes) :
            scopes[k].children = IF k < Len(scopes) THEN <<k + 1>> ELSE <<>>
  /\ Completed => result.scopes = scopes

\* a completed call whose tree has a node with two FOR_STATEMENT children,
\* one after the other, each of which pushed a scope
C22_Witness ==
  /\ Completed
  /\ Len(result.scopes) >= 3
  /\ \E a \in 1..Len(Preorder(parseTree)) :
       LET n == Preorder(parseTree)[a]
       IN \E j \in 1..(Len(n.children) - 1) :
            /\ n.children[j].type = "FOR_STATEMENT"
            /\ n.children[j + 1].type = "FOR_STATEMENT"

====
